---- MODULE Spec2Model ----
(***************************************************************************)
(* The schedule configuration DSL of bevy_ecs: the SystemGraph node of     *)
(* schedule/graph.rs, the builder verbs implemented on it, the set         *)
(* identities of schedule/set.rs and the config wrappers of                *)
(* schedule/config.rs.                                                     *)
(*                                                                         *)
(* The identities of anonymous sets (AnonymousSystemSet of schedule/set.rs)*)
(* are values of their own, created, cloned and dropped apart from any     *)
(* node: they have a specification of their own, SpecSets.                 *)
(*                                                                         *)
(* A behaviour is one builder chain: an input expression is lifted to a    *)
(* node (Init), and each step applies one verb to the node built so far,   *)
(* or puts it into a tuple that is lifted again.  A verb that panics ends  *)
(* the chain: the receiver was moved into the call and is lost.            *)
(***************************************************************************)
EXTENDS Naturals, Sequences, FiniteSets, TLC

VARIABLES
    graph,      \* the SystemGraph the chain has built so far (NoGraph once lost)
    wrapper,    \* the type holding it: SystemGraph itself or a config wrapper
    panicked,   \* a verb has panicked
    panic_msg,  \* the message of that panic
    last,       \* the call that produced this state: [op, arg]
    steps,      \* calls made after the first lifting
    arcs,       \* the heap of Arc allocations: address -> [strong, data]
    anonymous,  \* the AnonymousSystemSet values alive: slot -> value or NoValue
    issued      \* the addresses AnonymousSystemSet::new was given, in call order

vars == <<graph, wrapper, panicked, panic_msg, last, steps, arcs, anonymous, issued>>

\* Number of calls of one builder chain after the first lifting.
MaxSteps == 3

\* Number of calls of AnonymousSystemSet::new in one behaviour.
MaxCreations == 3

\* Number of addresses the allocator has to give.
NumAddresses == 2

\* Number of AnonymousSystemSet values alive at one time.
NumSlots == 2

----------------------------------------------------------------------------
(* Results of calls that may panic *)

NoGraph == [type |-> "None"]

Ok(v) == [panicked |-> FALSE, msg |-> "", value |-> v]

Panic(m) == [panicked |-> TRUE, msg |-> m, value |-> NoGraph]

\* panic!() without arguments carries Rust's default message.
ExplicitPanic == Panic("explicit panic")

----------------------------------------------------------------------------
(* schedule/set.rs: set identities *)

NamedSet(label, base) == [kind |-> "Named", name |-> label, base |-> base]

SystemTypeSet(f) == [kind |-> "SystemTypeSet", name |-> f, base |-> FALSE]

is_system_type(set) == set.kind = "SystemTypeSet"

\* Hash of SystemTypeSet<T>: nothing is written to the hasher.
SystemTypeSet_hash(set) == <<>>

\* PartialEq of SystemTypeSet<T>: two values of one T are equal.
SystemTypeSet_eq(x, y) == TRUE

is_base(set) == set.kind = "Named" /\ set.base

\* The heap that holds the Arc<[Cow<str>]> of the anonymous sets.  An address
\* with strong = 0 is free: the allocator may give it to the next allocation.
Addresses == 1..NumAddresses

Slots == 1..NumSlots

NoValue == [ptr |-> 0, creation |-> 0]

FreeArc == [strong |-> 0, data |-> <<>>]

NoArcs == [a \in Addresses |-> FreeArc]

NoAnonymous == [s \in Slots |-> NoValue]

\* system_names.collect() into an Arc<[_]>: a new allocation at address a,
\* with one strong reference.
Arc_new(heap, a, names) == [heap EXCEPT ![a] = [strong |-> 1, data |-> names]]

\* Arc::clone: one more strong reference to the same allocation.
Arc_clone(heap, a) == [heap EXCEPT ![a].strong = @ + 1]

\* Dropping an Arc: the allocation is freed with its last strong reference.
Arc_drop(heap, a) ==
    IF heap[a].strong = 1
    THEN [heap EXCEPT ![a] = FreeArc]
    ELSE [heap EXCEPT ![a].strong = @ - 1]

\* An AnonymousSystemSet is the pointer of its system_names; creation counts
\* the call of new that made it, and is not a field of the source.
AnonymousSystemSet_new(a, n) == [ptr |-> a, creation |-> n]

AnonymousSystemSet_clone(set) == set

\* PartialEq: Arc::ptr_eq of the two system_names.
AnonymousSystemSet_eq(x, y) == x.ptr = y.ptr

\* Hash: the pointer alone is hashed.
AnonymousSystemSet_hash(x) == x.ptr

\* Debug: the names joined.
AnonymousSystemSet_names(heap, x) == heap[x.ptr].data

----------------------------------------------------------------------------
(* graph_utils: GraphInfo, Ambiguity, Dependency *)

Check == [tag |-> "Check"]

IgnoreWithSet(sets) == [tag |-> "IgnoreWithSet", sets |-> sets]

IgnoreAll == [tag |-> "IgnoreAll"]

GraphInfo_system ==
    [sets |-> <<>>, base_set |-> <<>>, dependencies |-> <<>>,
     ambiguous_with |-> Check, add_default_base_set |-> TRUE]

GraphInfo_system_set ==
    [sets |-> <<>>, base_set |-> <<>>, dependencies |-> <<>>,
     ambiguous_with |-> Check, add_default_base_set |-> FALSE]

\* base_set is an Option: <<>> is None, <<s>> is Some(s).
set_base_set(graph_info, set) == [graph_info EXCEPT !.base_set = <<set>>]

Dependency_new(kind, g) == [kind |-> kind, graph |-> g]

----------------------------------------------------------------------------
(* schedule/graph.rs: the node and its queries *)

SystemNode(f) ==
    [type |-> "System", graph_info |-> GraphInfo_system,
     system |-> f, conditions |-> <<>>]

SetNode(set) ==
    [type |-> "Set", graph_info |-> GraphInfo_system_set,
     set |-> set, conditions |-> <<>>]

\* A variant that lifts a tuple of one element to the element's node.
CollectionNode_of_two_or_more(members) ==
    IF Len(members) = 1
    THEN members[1]
    ELSE [type |-> "Collection", graph_info |-> GraphInfo_system_set,
          members |-> members, chained |-> FALSE]

CollectionNode(members) ==
    [type |-> "Collection", graph_info |-> GraphInfo_system_set,
     members |-> members, chained |-> FALSE]

\* A variant that looks into the members of an AnonymousSet as well.
RECURSIVE contains_system_across_sets(_)
contains_system_across_sets(g) ==
    CASE g.type = "System" -> TRUE
      [] g.type = "Set" -> FALSE
      [] g.type \in {"Collection", "AnonymousSet"} ->
            \E i \in 1..Len(g.members) : contains_system_across_sets(g.members[i])

RECURSIVE contains_system(_)
contains_system(g) ==
    CASE g.type = "System" -> TRUE
      [] g.type \in {"Set", "AnonymousSet"} -> FALSE
      [] g.type = "Collection" ->
            \E i \in 1..Len(g.members) : contains_system(g.members[i])

\* A variant that looks at the direct members of a Collection only.
contains_system_type_set_shallow(g) ==
    CASE g.type \in {"System", "AnonymousSet"} -> FALSE
      [] g.type = "Set" -> is_system_type(g.set)
      [] g.type = "Collection" ->
            \E i \in 1..Len(g.members) :
                g.members[i].type = "Set" /\ is_system_type(g.members[i].set)

RECURSIVE contains_system_type_set(_)
contains_system_type_set(g) ==
    CASE g.type \in {"System", "AnonymousSet"} -> FALSE
      [] g.type = "Set" -> is_system_type(g.set)
      [] g.type = "Collection" ->
            \E i \in 1..Len(g.members) : contains_system_type_set(g.members[i])

\* A variant that looks at the direct members of a Collection only.
contains_base_set_shallow(g) ==
    CASE g.type \in {"System", "AnonymousSet"} -> FALSE
      [] g.type = "Set" -> is_base(g.set)
      [] g.type = "Collection" ->
            \E i \in 1..Len(g.members) :
                g.members[i].type = "Set" /\ is_base(g.members[i].set)

RECURSIVE contains_base_set(_)
contains_base_set(g) ==
    CASE g.type \in {"System", "AnonymousSet"} -> FALSE
      [] g.type = "Set" -> is_base(g.set)
      [] g.type = "Collection" ->
            \E i \in 1..Len(g.members) : contains_base_set(g.members[i])

\* A variant without the assertion.
new_condition_unchecked(condition) == Ok(condition)

\* Boxes the condition after asserting that it is send.  The message names
\* the condition; the source's backquotes around the name are written as
\* apostrophes here.
new_condition(condition) ==
    IF condition.send
    THEN Ok(condition)
    ELSE Panic("Condition '" \o condition.name
               \o "' accesses thread-local resources. This is not currently supported.")

RECURSIVE distribute_run_condition(_, _)
RECURSIVE distribute_members(_, _)

\* The loop `for member in members` of distribute_run_condition: the members
\* in order, ended by the first panic.
distribute_members(members, condition) ==
    IF members = <<>>
    THEN Ok(<<>>)
    ELSE LET h == distribute_run_condition(Head(members), condition)
         IN  IF h.panicked
             THEN h
             ELSE LET t == distribute_members(Tail(members), condition)
                  IN  IF t.panicked THEN t ELSE Ok(<<h.value>> \o t.value)

\* A variant that walks into the members of an AnonymousSet as it does into
\* those of a Collection.
distribute_across_sets(g, condition) ==
    IF g.type \in {"Collection", "AnonymousSet"}
    THEN LET r == distribute_members(g.members, condition)
         IN  IF r.panicked THEN r ELSE Ok([g EXCEPT !.members = r.value])
    ELSE LET c == new_condition(condition)
         IN  IF c.panicked
             THEN c
             ELSE Ok([g EXCEPT !.conditions = Append(@, c.value)])

distribute_run_condition(g, condition) ==
    IF g.type = "Collection"
    THEN LET r == distribute_members(g.members, condition)
         IN  IF r.panicked THEN r ELSE Ok([g EXCEPT !.members = r.value])
    ELSE LET c == new_condition(condition)
         IN  IF c.panicked
             THEN c
             ELSE Ok([g EXCEPT !.conditions = Append(@, c.value)])

\* A variant that puts the dependency in front of the earlier ones.
insert_dependency_in_front(g, kind, target) ==
    [g EXCEPT !.graph_info.dependencies = <<Dependency_new(kind, target)>> \o @]

insert_dependency(g, kind, target) ==
    [g EXCEPT !.graph_info.dependencies = Append(@, Dependency_new(kind, target))]

\* A variant that treats IgnoreAll like Check.
ambiguous_with_leaving_ignore_all(graph_info, set) ==
    CASE graph_info.ambiguous_with.tag \in {"Check", "IgnoreAll"} ->
            [graph_info EXCEPT !.ambiguous_with = IgnoreWithSet(<<set>>)]
      [] graph_info.ambiguous_with.tag = "IgnoreWithSet" ->
            [graph_info EXCEPT !.ambiguous_with.sets = Append(@, set)]

\* A variant that does not push a set that is already listed.
ambiguous_with_deduplicating(graph_info, set) ==
    CASE graph_info.ambiguous_with.tag = "Check" ->
            [graph_info EXCEPT !.ambiguous_with = IgnoreWithSet(<<set>>)]
      [] graph_info.ambiguous_with.tag = "IgnoreWithSet" ->
            IF \E i \in 1..Len(graph_info.ambiguous_with.sets) :
                    graph_info.ambiguous_with.sets[i] = set
            THEN graph_info
            ELSE [graph_info EXCEPT !.ambiguous_with.sets = Append(@, set)]
      [] graph_info.ambiguous_with.tag = "IgnoreAll" -> graph_info

\* The free function ambiguous_with(graph_info, set).
ambiguous_with_info(graph_info, set) ==
    CASE graph_info.ambiguous_with.tag = "Check" ->
            [graph_info EXCEPT !.ambiguous_with = IgnoreWithSet(<<set>>)]
      [] graph_info.ambiguous_with.tag = "IgnoreWithSet" ->
            [graph_info EXCEPT !.ambiguous_with.sets = Append(@, set)]
      [] graph_info.ambiguous_with.tag = "IgnoreAll" -> graph_info

----------------------------------------------------------------------------
(* schedule/graph.rs: impl IntoSystemGraph for SystemGraph, the verbs *)

before(g, target) == Ok(insert_dependency(g, "Before", target))

after(g, target) == Ok(insert_dependency(g, "After", target))

in_set(g, parent) ==
    IF contains_system_type_set(parent)
    THEN Panic("adding arbitrary systems to a system type set is not allowed")
    ELSE IF contains_base_set(parent)
    THEN Panic("Systems cannot be added to 'base' system sets using 'in_set'. Use 'in_base_set' instead.")
    ELSE IF contains_base_set(g)
    THEN Panic("Base system sets cannot be added to other sets.")
    ELSE IF contains_system(parent)
    THEN Panic("")
    ELSE Ok([g EXCEPT !.graph_info.sets = Append(@, parent)])

\* A variant without the assertion that the set is a base set.
in_base_set_any_set(g, set) ==
    IF is_system_type(set)
    THEN Panic("System type sets cannot be base sets.")
    ELSE Ok([g EXCEPT !.graph_info = set_base_set(@, set)])

in_base_set(g, set) ==
    IF is_system_type(set)
    THEN Panic("System type sets cannot be base sets.")
    ELSE IF ~is_base(set)
    THEN Panic("Systems cannot be added to normal sets using 'in_base_set'. Use 'in_set' instead.")
    ELSE Ok([g EXCEPT !.graph_info = set_base_set(@, set)])

\* A variant that flips the flag.
in_default_base_set_flipping(g) ==
    Ok([g EXCEPT !.graph_info.add_default_base_set = ~@])

in_default_base_set(g) == Ok([g EXCEPT !.graph_info.add_default_base_set = TRUE])

\* A variant that takes the base set away as well.
no_default_base_set_clearing_base_set(g) ==
    Ok([g EXCEPT !.graph_info.add_default_base_set = FALSE,
                 !.graph_info.base_set = <<>>])

no_default_base_set(g) == Ok([g EXCEPT !.graph_info.add_default_base_set = FALSE])

\* A variant that puts the condition in front of the earlier ones.
run_if_prepending(g, condition) ==
    IF g.type = "Collection"
    THEN ExplicitPanic
    ELSE LET c == new_condition(condition)
         IN  IF c.panicked
             THEN c
             ELSE Ok([g EXCEPT !.conditions = <<c.value>> \o @])

run_if(g, condition) ==
    IF g.type = "Collection"
    THEN ExplicitPanic
    ELSE LET c == new_condition(condition)
         IN  IF c.panicked
             THEN c
             ELSE Ok([g EXCEPT !.conditions = Append(@, c.value)])

\* A variant without the check of the receiver's variant.
distributive_run_if_on_any_node(g, condition) ==
    distribute_run_condition(g, condition)

distributive_run_if(g, condition) ==
    IF g.type # "Collection"
    THEN ExplicitPanic
    ELSE distribute_run_condition(g, condition)

\* A variant that moves the graph-info of a System to the AnonymousSet made
\* of it.
into_set_moving_graph_info(g) ==
    CASE g.type = "System" ->
            Ok([type |-> "AnonymousSet", graph_info |-> g.graph_info,
                members |-> <<[g EXCEPT !.graph_info = GraphInfo_system]>>,
                chained |-> FALSE, conditions |-> <<>>])
      [] g.type \in {"Set", "AnonymousSet"} -> ExplicitPanic
      [] g.type = "Collection" ->
            Ok([type |-> "AnonymousSet", graph_info |-> g.graph_info,
                members |-> g.members, chained |-> g.chained, conditions |-> <<>>])

\* A variant that gives the AnonymousSet made of a Collection a new graph-info.
into_set_with_new_graph_info(g) ==
    CASE g.type = "System" ->
            Ok([type |-> "AnonymousSet", graph_info |-> GraphInfo_system_set,
                members |-> <<g>>, chained |-> FALSE, conditions |-> <<>>])
      [] g.type \in {"Set", "AnonymousSet"} -> ExplicitPanic
      [] g.type = "Collection" ->
            Ok([type |-> "AnonymousSet", graph_info |-> GraphInfo_system_set,
                members |-> g.members, chained |-> g.chained, conditions |-> <<>>])

\* A variant that returns a node that is a set already as it is.
into_set_keeping_sets(g) ==
    CASE g.type = "System" ->
            Ok([type |-> "AnonymousSet", graph_info |-> GraphInfo_system_set,
                members |-> <<g>>, chained |-> FALSE, conditions |-> <<>>])
      [] g.type \in {"Set", "AnonymousSet"} -> Ok(g)
      [] g.type = "Collection" ->
            Ok([type |-> "AnonymousSet", graph_info |-> g.graph_info,
                members |-> g.members, chained |-> g.chained, conditions |-> <<>>])

into_set(g) ==
    CASE g.type = "System" ->
            Ok([type |-> "AnonymousSet", graph_info |-> GraphInfo_system_set,
                members |-> <<g>>, chained |-> FALSE, conditions |-> <<>>])
      [] g.type \in {"Set", "AnonymousSet"} -> ExplicitPanic
      [] g.type = "Collection" ->
            Ok([type |-> "AnonymousSet", graph_info |-> g.graph_info,
                members |-> g.members, chained |-> g.chained, conditions |-> <<>>])

\* A variant that flips the flag.
chain_flipping(g) ==
    IF g.type \in {"System", "Set"}
    THEN ExplicitPanic
    ELSE Ok([g EXCEPT !.chained = ~@])

chain(g) ==
    IF g.type \in {"System", "Set"}
    THEN ExplicitPanic
    ELSE Ok([g EXCEPT !.chained = TRUE])

ambiguous_with(g, set) ==
    Ok([g EXCEPT !.graph_info = ambiguous_with_info(@, set)])

ambiguous_with_all(g) == Ok([g EXCEPT !.graph_info.ambiguous_with = IgnoreAll])

----------------------------------------------------------------------------
(* Lifting: the into_graph and into_system_set implementations *)

\* Input expressions: a work-unit function, a boxed system, a set value, a
\* boxed set, a node built earlier, a tuple of these.
FnInput(f) == [k |-> "fn", f |-> f]

BoxedSystemInput(f) == [k |-> "boxed_system", f |-> f]

SetInput(set) == [k |-> "set", set |-> set]

BoxedSetInput(set) == [k |-> "boxed_set", set |-> set]

GraphInput(g) == [k |-> "graph", graph |-> g]

TupleInput(elems) == [k |-> "tuple", elems |-> elems]

RECURSIVE into_graph(_)
into_graph(x) ==
    CASE x.k = "fn" -> SystemNode(x.f)
      [] x.k = "boxed_system" -> SystemNode(x.f)
      [] x.k = "boxed_set" -> SetNode(x.set)
      [] x.k = "set" -> SetNode(x.set)
      [] x.k = "graph" -> x.graph
      [] x.k = "tuple" ->
            CollectionNode([i \in 1..Len(x.elems) |-> into_graph(x.elems[i])])

\* IntoSystemSet: a set is itself, a function is its system-type set.
into_system_set(x) ==
    CASE x.k = "set" -> x.set
      [] x.k = "fn" -> SystemTypeSet(x.f)

----------------------------------------------------------------------------
(* The inputs the chains are built from *)

A == FnInput("A")
B == FnInput("B")
S == NamedSet("S", FALSE)
T == NamedSet("T", FALSE)
B1 == NamedSet("B1", TRUE)
B2 == NamedSet("B2", TRUE)

Conditions ==
    { [name |-> "c1", send |-> TRUE],
      [name |-> "c2", send |-> TRUE],
      [name |-> "c3", send |-> FALSE] }

\* B.run_if(c1).into_set(), written as an element of a tuple.
ConditionedSetOfB ==
    into_set(run_if(into_graph(B), [name |-> "c1", send |-> TRUE]).value).value

\* What a chain starts from.
InitInputs ==
    { A, BoxedSystemInput("B"), SetInput(S), SetInput(B1),
      SetInput(SystemTypeSet("A")),
      TupleInput(<<>>),
      TupleInput(<<A, B>>),
      TupleInput(<<SetInput(S), TupleInput(<<SetInput(B1)>>)>>),
      TupleInput(<<A, TupleInput(<<GraphInput(ConditionedSetOfB), SetInput(S)>>)>>) }

\* Targets of before and after.
DependencyInputs == { A, SetInput(S) }

\* Parents given to in_set.
ParentInputs ==
    { SetInput(S), BoxedSetInput(T), SetInput(B1), SetInput(SystemTypeSet("A")), A,
      TupleInput(<<SetInput(S), SetInput(T)>>),
      TupleInput(<<SetInput(S), TupleInput(<<SetInput(SystemTypeSet("B"))>>)>>),
      TupleInput(<<SetInput(S), TupleInput(<<SetInput(B2)>>)>>),
      TupleInput(<<SetInput(S), TupleInput(<<B>>)>>),
      GraphInput(into_set(into_graph(A)).value),
      GraphInput(into_set(into_graph(TupleInput(<<SetInput(SystemTypeSet("A")), SetInput(B1)>>))).value) }

\* Sets given to in_base_set.
BaseSetArgs == { B1, B2, S, SystemTypeSet("A") }

\* Arguments of ambiguous_with.
AmbiguousInputs == { SetInput(S), A }

\* Elements written next to the node built so far when it is put in a tuple.
TupleElems == { B, SetInput(B2) }

TupleContexts ==
    { <<<<>>, <<>>>> }
    \cup { <<<<e>>, <<>>>> : e \in TupleElems }
    \cup { <<<<>>, <<e>>>> : e \in TupleElems }

----------------------------------------------------------------------------
(* The builder chain on SystemGraph *)

Init ==
    /\ \E x \in InitInputs :
          /\ graph = into_graph(x)
          /\ last = [op |-> "into_graph", arg |-> x]
    /\ wrapper = "SystemGraph"
    /\ panicked = FALSE
    /\ panic_msg = ""
    /\ steps = 0
    /\ arcs = NoArcs
    /\ anonymous = NoAnonymous
    /\ issued = <<>>

CanCall == ~panicked /\ steps < MaxSteps

\* The outcome r of the call l, held by a value of type w: the node the call
\* returns, or the panic that loses it.
ReturnAs(r, l, w) ==
    /\ steps' = steps + 1
    /\ last' = l
    /\ panicked' = r.panicked
    /\ panic_msg' = r.msg
    /\ graph' = r.value
    /\ wrapper' = w
    /\ UNCHANGED <<arcs, anonymous, issued>>

Return(r, l) == ReturnAs(r, l, wrapper)

Before(x) ==
    /\ CanCall
    /\ Return(before(graph, into_graph(x)), [op |-> "before", arg |-> x])

After(x) ==
    /\ CanCall
    /\ Return(after(graph, into_graph(x)), [op |-> "after", arg |-> x])

InSet(x) ==
    /\ CanCall
    /\ Return(in_set(graph, into_graph(x)), [op |-> "in_set", arg |-> x])

InBaseSet(set) ==
    /\ CanCall
    /\ Return(in_base_set(graph, set), [op |-> "in_base_set", arg |-> set])

InDefaultBaseSet ==
    /\ CanCall
    /\ Return(in_default_base_set(graph), [op |-> "in_default_base_set", arg |-> <<>>])

NoDefaultBaseSet ==
    /\ CanCall
    /\ Return(no_default_base_set(graph), [op |-> "no_default_base_set", arg |-> <<>>])

RunIf(c) ==
    /\ CanCall
    /\ Return(run_if(graph, c), [op |-> "run_if", arg |-> c])

DistributiveRunIf(c) ==
    /\ CanCall
    /\ Return(distributive_run_if(graph, c), [op |-> "distributive_run_if", arg |-> c])

IntoSet ==
    /\ CanCall
    /\ Return(into_set(graph), [op |-> "into_set", arg |-> <<>>])

Chain ==
    /\ CanCall
    /\ Return(chain(graph), [op |-> "chain", arg |-> <<>>])

AmbiguousWith(x) ==
    /\ CanCall
    /\ Return(ambiguous_with(graph, into_system_set(x)),
              [op |-> "ambiguous_with", arg |-> x])

AmbiguousWithAll ==
    /\ CanCall
    /\ Return(ambiguous_with_all(graph), [op |-> "ambiguous_with_all", arg |-> <<>>])

\* The node built so far is written as one element of a tuple, which is lifted.
IntoGraphTuple(ctx) ==
    /\ CanCall
    /\ Return(Ok(into_graph(TupleInput(ctx[1] \o <<GraphInput(graph)>> \o ctx[2]))),
              [op |-> "into_graph_tuple", arg |-> ctx])

Next ==
    \/ \E x \in DependencyInputs : Before(x)
    \/ \E x \in DependencyInputs : After(x)
    \/ \E x \in ParentInputs : InSet(x)
    \/ \E set \in BaseSetArgs : InBaseSet(set)
    \/ InDefaultBaseSet
    \/ NoDefaultBaseSet
    \/ \E c \in Conditions : RunIf(c)
    \/ \E c \in Conditions : DistributiveRunIf(c)
    \/ IntoSet
    \/ Chain
    \/ \E x \in AmbiguousInputs : AmbiguousWith(x)
    \/ AmbiguousWithAll
    \/ \E ctx \in TupleContexts : IntoGraphTuple(ctx)

Spec == Init /\ [][Next]_vars

----------------------------------------------------------------------------
(* schedule/config.rs: the config wrappers around a SystemGraph *)

\* A variant in which every wrapper has the verbs of SystemConfigs.
WrapperVerbs_of_SystemConfigs(w) ==
    {"in_set", "in_base_set", "before", "after", "run_if",
     "distributive_run_if", "ambiguous_with", "ambiguous_with_all",
     "chain", "into_set"}

\* The verbs each wrapper type implements.
WrapperVerbs(w) ==
    CASE w = "SystemSetConfig" ->
            {"in_set", "in_base_set", "in_default_base_set", "before", "after",
             "run_if", "ambiguous_with", "ambiguous_with_all"}
      [] w = "SystemConfig" ->
            {"in_set", "in_base_set", "no_default_base_set", "before", "after",
             "run_if", "ambiguous_with", "ambiguous_with_all"}
      [] w = "SystemConfigs" ->
            {"in_set", "in_base_set", "before", "after", "run_if",
             "distributive_run_if", "ambiguous_with", "ambiguous_with_all",
             "chain", "into_set"}
      [] w = "SystemSetConfigs" ->
            {"in_set", "in_base_set", "before", "after", "ambiguous_with",
             "ambiguous_with_all", "chain"}

\* in_set(set: impl SystemSet): the set value is lifted to a Set node.
Config_in_set(g, set) == in_set(g, into_graph(SetInput(set)))

\* before and after lift their argument to a set identity first.
Config_before(g, x) == before(g, into_graph(SetInput(into_system_set(x))))

\* A variant that lifts its argument to a node, as SystemGraph's after does.
Config_after_of_graph(g, x) == after(g, into_graph(x))

Config_after(g, x) == after(g, into_graph(SetInput(into_system_set(x))))

SystemConfigs_distributive_run_if(g, condition) == run_if(g, condition)

\* into_config of a function, a boxed system, a set or a boxed set.
into_config(x) == into_graph(x)

\* into_configs of a tuple: the graph of every element's config, as a tuple.
into_configs(elems) ==
    into_graph(TupleInput([i \in 1..Len(elems) |-> GraphInput(into_config(elems[i]))]))

\* What a chain on a config wrapper starts from.
ConfigInputs ==
    { [wrapper |-> "SystemConfig", x |-> A],
      [wrapper |-> "SystemConfig", x |-> BoxedSystemInput("B")],
      [wrapper |-> "SystemSetConfig", x |-> SetInput(S)],
      [wrapper |-> "SystemSetConfig", x |-> BoxedSetInput(B1)],
      [wrapper |-> "SystemConfigs", x |-> TupleInput(<<>>)],
      [wrapper |-> "SystemConfigs", x |-> TupleInput(<<A, B>>)],
      [wrapper |-> "SystemSetConfigs", x |-> TupleInput(<<>>)],
      [wrapper |-> "SystemSetConfigs", x |-> TupleInput(<<SetInput(S), SetInput(B1)>>)] }

\* Sets given to in_set and in_base_set of a wrapper.
ConfigSetArgs == { S, B1, B2, SystemTypeSet("A") }

\* The wrapper of the tuple a config is written into, and the elements
\* written next to it.
CollectionWrapper(w) ==
    IF w = "SystemConfig" THEN "SystemConfigs" ELSE "SystemSetConfigs"

ConfigTupleContexts(w) ==
    LET e == IF w = "SystemConfig" THEN B ELSE SetInput(T)
    IN  { <<<<>>, <<>>>>, <<<<e>>, <<>>>>, <<<<>>, <<e>>>> }

InitConfig ==
    /\ \E i \in ConfigInputs :
          /\ wrapper = i.wrapper
          /\ graph = (IF i.x.k = "tuple" THEN into_configs(i.x.elems) ELSE into_config(i.x))
          /\ last = [op |-> "into_config", arg |-> i.x]
    /\ panicked = FALSE
    /\ panic_msg = ""
    /\ steps = 0
    /\ arcs = NoArcs
    /\ anonymous = NoAnonymous
    /\ issued = <<>>

CanCallConfig(verb) == CanCall /\ verb \in WrapperVerbs(wrapper)

ConfigInSet(set) ==
    /\ CanCallConfig("in_set")
    /\ Return(Config_in_set(graph, set), [op |-> "in_set", arg |-> SetInput(set)])

ConfigInBaseSet(set) ==
    /\ CanCallConfig("in_base_set")
    /\ Return(in_base_set(graph, set), [op |-> "in_base_set", arg |-> set])

ConfigInDefaultBaseSet ==
    /\ CanCallConfig("in_default_base_set")
    /\ Return(in_default_base_set(graph), [op |-> "in_default_base_set", arg |-> <<>>])

ConfigNoDefaultBaseSet ==
    /\ CanCallConfig("no_default_base_set")
    /\ Return(no_default_base_set(graph), [op |-> "no_default_base_set", arg |-> <<>>])

ConfigBefore(x) ==
    /\ CanCallConfig("before")
    /\ Return(Config_before(graph, x), [op |-> "before", arg |-> x])

ConfigAfter(x) ==
    /\ CanCallConfig("after")
    /\ Return(Config_after(graph, x), [op |-> "after", arg |-> x])

ConfigRunIf(c) ==
    /\ CanCallConfig("run_if")
    /\ Return(run_if(graph, c), [op |-> "run_if", arg |-> c])

ConfigDistributiveRunIf(c) ==
    /\ CanCallConfig("distributive_run_if")
    /\ Return(SystemConfigs_distributive_run_if(graph, c),
              [op |-> "distributive_run_if", arg |-> c])

ConfigAmbiguousWith(x) ==
    /\ CanCallConfig("ambiguous_with")
    /\ Return(ambiguous_with(graph, into_system_set(x)),
              [op |-> "ambiguous_with", arg |-> x])

ConfigAmbiguousWithAll ==
    /\ CanCallConfig("ambiguous_with_all")
    /\ Return(ambiguous_with_all(graph), [op |-> "ambiguous_with_all", arg |-> <<>>])

ConfigChain ==
    /\ CanCallConfig("chain")
    /\ Return(chain(graph), [op |-> "chain", arg |-> <<>>])

ConfigIntoSet ==
    /\ CanCallConfig("into_set")
    /\ Return(into_set(graph), [op |-> "into_set", arg |-> <<>>])

\* The config built so far is written as one element of a tuple.
ConfigIntoConfigs(ctx) ==
    /\ CanCall
    /\ wrapper \in {"SystemConfig", "SystemSetConfig"}
    /\ ctx \in ConfigTupleContexts(wrapper)
    /\ ReturnAs(Ok(into_configs(ctx[1] \o <<GraphInput(graph)>> \o ctx[2])),
                [op |-> "into_graph_tuple", arg |-> ctx],
                CollectionWrapper(wrapper))

NextConfig ==
    \/ \E set \in ConfigSetArgs : ConfigInSet(set)
    \/ \E set \in ConfigSetArgs : ConfigInBaseSet(set)
    \/ ConfigInDefaultBaseSet
    \/ ConfigNoDefaultBaseSet
    \/ \E x \in DependencyInputs : ConfigBefore(x)
    \/ \E x \in DependencyInputs : ConfigAfter(x)
    \/ \E c \in Conditions : ConfigRunIf(c)
    \/ \E c \in Conditions : ConfigDistributiveRunIf(c)
    \/ \E x \in AmbiguousInputs : ConfigAmbiguousWith(x)
    \/ ConfigAmbiguousWithAll
    \/ ConfigChain
    \/ ConfigIntoSet
    \/ \E ctx \in ConfigTupleContexts("SystemConfig") \cup ConfigTupleContexts("SystemSetConfig") :
          ConfigIntoConfigs(ctx)

SpecConfig == InitConfig /\ [][NextConfig]_vars

----------------------------------------------------------------------------
(* schedule/set.rs: the identities of anonymous sets *)

\* The member names an anonymous set is made of.
NameLists == { <<"A", "B">>, <<"C", "D">> }

InitSets ==
    /\ graph = NoGraph
    /\ wrapper = "AnonymousSystemSet"
    /\ panicked = FALSE
    /\ panic_msg = ""
    /\ last = [op |-> "none", arg |-> <<>>]
    /\ steps = 0
    /\ arcs = NoArcs
    /\ anonymous = NoAnonymous
    /\ issued = <<>>

\* AnonymousSystemSet::new(names), its value kept in slot s.  The allocator
\* gives any address that is free.
AnonymousNew(s, names, a) ==
    /\ Len(issued) < MaxCreations
    /\ anonymous[s] = NoValue
    /\ arcs[a].strong = 0
    /\ arcs' = Arc_new(arcs, a, names)
    /\ anonymous' = [anonymous EXCEPT ![s] = AnonymousSystemSet_new(a, Len(issued) + 1)]
    /\ issued' = Append(issued, a)
    /\ last' = [op |-> "new", arg |-> s]
    /\ UNCHANGED <<graph, wrapper, panicked, panic_msg, steps>>

\* The value in slot s is cloned into slot t.
AnonymousClone(s, t) ==
    /\ anonymous[s] # NoValue
    /\ anonymous[t] = NoValue
    /\ arcs' = Arc_clone(arcs, anonymous[s].ptr)
    /\ anonymous' = [anonymous EXCEPT ![t] = AnonymousSystemSet_clone(anonymous[s])]
    /\ last' = [op |-> "clone", arg |-> t]
    /\ UNCHANGED <<graph, wrapper, panicked, panic_msg, steps, issued>>

\* The value in slot s goes out of scope.
AnonymousDrop(s) ==
    /\ anonymous[s] # NoValue
    /\ arcs' = Arc_drop(arcs, anonymous[s].ptr)
    /\ anonymous' = [anonymous EXCEPT ![s] = NoValue]
    /\ last' = [op |-> "drop", arg |-> s]
    /\ UNCHANGED <<graph, wrapper, panicked, panic_msg, steps, issued>>

NextSets ==
    \/ \E s \in Slots, names \in NameLists, a \in Addresses : AnonymousNew(s, names, a)
    \/ \E s \in Slots, t \in Slots : AnonymousClone(s, t)
    \/ \E s \in Slots : AnonymousDrop(s)

SpecSets == InitSets /\ [][NextSets]_vars

----------------------------------------------------------------------------
(* Vocabulary of the properties *)

\* The node n of `graph` after the call `last'`: the paths of the members of
\* the receiver are those of before, below the place the call gave the
\* receiver in the node it returned.
ReceiverPlace ==
    IF last'.op = "into_graph_tuple" THEN <<Len(last'.arg[1]) + 1>>
    ELSE IF last'.op = "into_set" /\ graph.type = "System" THEN <<1>>
    ELSE <<>>

Called == steps' = steps + 1

Returned == Called /\ ~panicked'

HasMembers(g) == g.type \in {"Collection", "AnonymousSet"}

RECURSIVE NodeAt(_, _)
NodeAt(g, path) ==
    IF path = <<>> THEN g ELSE NodeAt(g.members[Head(path)], Tail(path))

\* Paths to the nodes that are not Collections and are reached from g through
\* members of Collections only.
RECURSIVE CollectionLeafPaths(_)
CollectionLeafPaths(g) ==
    IF g.type # "Collection"
    THEN { <<>> }
    ELSE UNION { { <<i>> \o p : p \in CollectionLeafPaths(g.members[i]) } :
                 i \in 1..Len(g.members) }

\* Paths to all nodes reached from g through members, g included.
RECURSIVE MemberPaths(_)
MemberPaths(g) ==
    IF ~HasMembers(g)
    THEN { <<>> }
    ELSE { <<>> } \cup
         UNION { { <<i>> \o p : p \in MemberPaths(g.members[i]) } :
                 i \in 1..Len(g.members) }

\* g with every node that CollectionLeafPaths reaches replaced by a mark.
RECURSIVE CollectionSkeleton(_)
CollectionSkeleton(g) ==
    IF g.type # "Collection"
    THEN [type |-> "Leaf"]
    ELSE [g EXCEPT !.members =
              [i \in 1..Len(g.members) |-> CollectionSkeleton(g.members[i])]]

\* Every node of g: its members, its parents and its dependency targets.
RECURSIVE AllNodes(_)
AllNodes(g) ==
    { g }
    \cup (IF HasMembers(g)
          THEN UNION { AllNodes(g.members[i]) : i \in 1..Len(g.members) }
          ELSE {})
    \cup UNION { AllNodes(g.graph_info.sets[i]) : i \in 1..Len(g.graph_info.sets) }
    \cup UNION { AllNodes(g.graph_info.dependencies[i].graph) :
                 i \in 1..Len(g.graph_info.dependencies) }

IsBaseSetNode(n) == n.type = "Set" /\ n.set.kind = "Named" /\ n.set.base

IsSystemTypeSetNode(n) == n.type = "Set" /\ n.set.kind = "SystemTypeSet"

SameExcept(g, h, fieldname) ==
    /\ DOMAIN g = DOMAIN h
    /\ \A f \in DOMAIN g \ { fieldname } : g[f] = h[f]

SendCondition(c) == c.send

----------------------------------------------------------------------------
(* Properties of the builder chain on SystemGraph *)

\* C1: distributive_run_if(c) with a send condition c on a Collection returns
\* a node: every non-Collection node reached through Collection members only
\* has c appended once to its conditions and is otherwise as before (so the
\* members of a nested AnonymousSet are untouched), and the Collections
\* themselves are as before and carry no conditions.
C1_DistributeToLeaves ==
    [][ (Called /\ last'.op = "distributive_run_if"
            /\ graph.type = "Collection" /\ SendCondition(last'.arg))
        => /\ ~panicked'
           /\ graph'.type = "Collection"
           /\ "conditions" \notin DOMAIN graph'
           /\ CollectionSkeleton(graph') = CollectionSkeleton(graph)
           /\ \A p \in CollectionLeafPaths(graph) :
                 /\ NodeAt(graph', p).conditions
                        = NodeAt(graph, p).conditions \o <<last'.arg>>
                 /\ SameExcept(NodeAt(graph', p), NodeAt(graph, p), "conditions")
      ]_vars

\* A condition has been distributed over a Collection that holds a nested
\* Collection, and in it an AnonymousSet whose member had a condition before.
C1_Witness ==
    /\ ~panicked
    /\ last.op = "distributive_run_if"
    /\ graph.type = "Collection"
    /\ \E p \in CollectionLeafPaths(graph) :
          /\ Len(p) = 2
          /\ NodeAt(graph, p).type = "AnonymousSet"
          /\ NodeAt(graph, p).conditions = <<last.arg>>
          /\ NodeAt(graph, p).members[1].conditions = <<last.arg>>

\* C3: run_if on a Collection panics and yields no node, into_set turns the
\* Collection into an AnonymousSet of the same members, on which run_if with
\* a send condition returns; distributive_run_if on a System, Set or
\* AnonymousSet panics and yields no node.
C3_VariantLegality ==
    [][ Called =>
        /\ (last'.op = "run_if" /\ graph.type = "Collection")
              => (panicked' /\ graph' = NoGraph)
        /\ (last'.op = "into_set" /\ graph.type = "Collection")
              => (/\ ~panicked'
                  /\ graph'.type = "AnonymousSet"
                  /\ graph'.members = graph.members)
        /\ (last'.op = "run_if" /\ graph.type = "AnonymousSet"
                /\ SendCondition(last'.arg))
              => (~panicked' /\ graph'.type = "AnonymousSet")
        /\ (last'.op = "distributive_run_if"
                /\ graph.type \in {"System", "Set", "AnonymousSet"})
              => (panicked' /\ graph' = NoGraph)
      ]_vars

\* run_if with a send condition has panicked: its receiver was a Collection.
C3_Witness ==
    /\ panicked
    /\ graph = NoGraph
    /\ last.op = "run_if"
    /\ SendCondition(last.arg)

\* C4: run_if(c) with a send condition c on a System, Set or AnonymousSet
\* appends c at the end of the node's own conditions and changes no other
\* field of it: not its members, nor chained, nor its graph-info.
C4_RunIfAppendsToReceiver ==
    [][ (Called /\ last'.op = "run_if"
            /\ graph.type \in {"System", "Set", "AnonymousSet"}
            /\ SendCondition(last'.arg))
        => /\ ~panicked'
           /\ graph'.conditions = graph.conditions \o <<last'.arg>>
           /\ SameExcept(graph', graph, "conditions")
      ]_vars

\* (A, B).into_set() has been given two conditions, one after the other.
C4_Witness ==
    /\ ~panicked
    /\ last.op = "run_if"
    /\ graph.type = "AnonymousSet"
    /\ graph.chained = FALSE
    /\ Len(graph.members) = 2
    /\ \A i \in 1..2 : graph.members[i].type = "System"
                       /\ graph.members[i].conditions = <<>>
    /\ Len(graph.conditions) = 2
    /\ graph.conditions[1] # graph.conditions[2]

AmbiguityOf(g) == g.graph_info.ambiguous_with

\* C5: a node whose ambiguity policy is IgnoreAll keeps it through every call
\* that returns, wherever the node is in the node built so far.
C5_IgnoreAllAbsorbing ==
    [][ Returned =>
        \A p \in MemberPaths(graph) :
            AmbiguityOf(NodeAt(graph, p)) = IgnoreAll
            => AmbiguityOf(NodeAt(graph', ReceiverPlace \o p)) = IgnoreAll
      ]_vars

\* ambiguous_with has been called on a node whose policy was IgnoreAll.
C5_Witness ==
    /\ ~panicked
    /\ last.op = "ambiguous_with"
    /\ AmbiguityOf(graph) = IgnoreAll

\* C6: a lifted node starts with Check; ambiguous_with(s) turns Check into
\* IgnoreWithSet([s]) and IgnoreWithSet(xs) into IgnoreWithSet(xs + [s]),
\* duplicates kept; no call but ambiguous_with and ambiguous_with_all changes
\* the policy, and no call brings it back to Check.
C6_IgnoreWithSetAccumulates ==
    /\ (steps = 0 => AmbiguityOf(graph) = Check)
    /\ [][ Returned =>
           LET old == AmbiguityOf(graph)
               new == AmbiguityOf(NodeAt(graph', ReceiverPlace))
           IN  /\ (last'.op = "ambiguous_with" /\ old.tag = "Check")
                     => new = [tag |-> "IgnoreWithSet",
                               sets |-> <<into_system_set(last'.arg)>>]
               /\ (last'.op = "ambiguous_with" /\ old.tag = "IgnoreWithSet")
                     => new = [tag |-> "IgnoreWithSet",
                               sets |-> old.sets \o <<into_system_set(last'.arg)>>]
               /\ (last'.op \notin {"ambiguous_with", "ambiguous_with_all"})
                     => new = old
               /\ (old.tag # "Check" => new.tag # "Check")
         ]_vars

\* Three calls of ambiguous_with, the third with the set of the first.
C6_Witness ==
    /\ ~panicked
    /\ last.op = "ambiguous_with"
    /\ AmbiguityOf(graph).tag = "IgnoreWithSet"
    /\ Len(AmbiguityOf(graph).sets) = 3
    /\ AmbiguityOf(graph).sets[1] = AmbiguityOf(graph).sets[3]
    /\ AmbiguityOf(graph).sets[1] # AmbiguityOf(graph).sets[2]

\* The proper prefixes of a path: the places of the nodes above it.
Ancestors(path) == { SubSeq(path, 1, n) : n \in 0..(Len(path) - 1) }

\* C7: in a node that a chain has built, a base Set node has no parents and
\* no base set of its own, is not below an AnonymousSet, and is not below a
\* Collection that has parents.
C7_BaseSetNeverNested ==
    ~panicked =>
        \A p \in MemberPaths(graph) :
            IsBaseSetNode(NodeAt(graph, p))
            => /\ NodeAt(graph, p).graph_info.sets = <<>>
               /\ NodeAt(graph, p).graph_info.base_set = <<>>
               /\ \A q \in Ancestors(p) :
                     /\ NodeAt(graph, q).type # "AnonymousSet"
                     /\ NodeAt(graph, q).graph_info.sets = <<>>

\* A parent that in_set's assertions on the parent let through when it is
\* given as a set value: a named set that is not a base set.
IsLegalSetParent(x) ==
    /\ x.k \in {"set", "boxed_set"}
    /\ x.set.kind = "Named"
    /\ ~x.set.base

HoldsBaseSet(g) ==
    \E p \in CollectionLeafPaths(g) : IsBaseSetNode(NodeAt(g, p))

BaseSetMessage == "Base system sets cannot be added to other sets."

\* C8: in_set with a legal set parent on a base Set, or on a Collection that
\* holds a base Set at any depth of Collections, panics with the message
\* "Base system sets cannot be added to other sets." and yields no node.
C8_BaseReceiverRejected ==
    [][ (Called /\ last'.op = "in_set"
            /\ IsLegalSetParent(last'.arg) /\ HoldsBaseSet(graph))
        => /\ panicked'
           /\ panic_msg' = BaseSetMessage
           /\ graph' = NoGraph
      ]_vars

\* in_set with a legal parent has panicked with the message of C8.
C8_Witness ==
    /\ panicked
    /\ last.op = "in_set"
    /\ IsLegalSetParent(last.arg)
    /\ panic_msg = BaseSetMessage

HoldsSystemTypeSet(g) ==
    \E p \in CollectionLeafPaths(g) : IsSystemTypeSetNode(NodeAt(g, p))

SystemTypeSetMessage == "adding arbitrary systems to a system type set is not allowed"

\* C9: no parent listed in the graph_info.sets of any node is a system-type
\* Set or a Collection that holds one at any depth of Collections, and
\* in_set with such a parent panics with the message "adding arbitrary
\* systems to a system type set is not allowed".
C9_SystemTypeSetGainsNoMembers ==
    /\ ~panicked =>
          \A n \in AllNodes(graph) :
              \A i \in 1..Len(n.graph_info.sets) :
                  ~HoldsSystemTypeSet(n.graph_info.sets[i])
    /\ (steps > 0 /\ last.op = "in_set" /\ HoldsSystemTypeSet(into_graph(last.arg)))
          => (panicked /\ panic_msg = SystemTypeSetMessage /\ graph = NoGraph)

\* in_set has been called with a tuple that holds a system-type set in a
\* nested tuple, and has panicked.
C9_Witness ==
    /\ panicked
    /\ last.op = "in_set"
    /\ last.arg.k = "tuple"
    /\ ~IsSystemTypeSetNode(into_graph(last.arg).members[2])
    /\ HoldsSystemTypeSet(into_graph(last.arg))
    /\ panic_msg = SystemTypeSetMessage

IsLegalBaseSet(set) == set.kind = "Named" /\ set.base

BaseSetOf(g) == g.graph_info.base_set

\* C10: the base_set of every node is None or one base set that is not a
\* system-type set; in_base_set with such a set returns the receiver with
\* base_set replaced by it and nothing else changed (its parents included),
\* in_base_set with any other set panics, and no other call changes the
\* receiver's base_set.
C10_OneLegalBaseSet ==
    /\ \A n \in AllNodes(graph) : BaseSetOf(n) = <<>>
    /\ [][ Called =>
           /\ ~panicked' =>
                 \A n \in AllNodes(graph') :
                     \/ BaseSetOf(n) = <<>>
                     \/ (Len(BaseSetOf(n)) = 1 /\ IsLegalBaseSet(BaseSetOf(n)[1]))
           /\ (last'.op = "in_base_set" /\ IsLegalBaseSet(last'.arg))
                 => /\ ~panicked'
                    /\ BaseSetOf(graph') = <<last'.arg>>
                    /\ graph'.graph_info.sets = graph.graph_info.sets
                    /\ SameExcept(graph'.graph_info, graph.graph_info, "base_set")
                    /\ SameExcept(graph', graph, "graph_info")
           /\ (last'.op = "in_base_set" /\ ~IsLegalBaseSet(last'.arg))
                 => (panicked' /\ graph' = NoGraph)
           /\ (last'.op # "in_base_set" /\ ~panicked')
                 => BaseSetOf(NodeAt(graph', ReceiverPlace)) = BaseSetOf(graph)
         ]_vars

\* in_base_set has returned as the third call on a node that has a parent:
\* base_set holds the set of this call alone.
C10_Witness ==
    /\ ~panicked
    /\ steps = 3
    /\ last.op = "in_base_set"
    /\ BaseSetOf(graph) = <<last.arg>>
    /\ Len(graph.graph_info.sets) = 1

\* g with the conditions of every node reached through members removed.
RECURSIVE WithoutConditions(_)
WithoutConditions(g) ==
    LET m == IF HasMembers(g)
             THEN [g EXCEPT !.members =
                       [i \in 1..Len(g.members) |-> WithoutConditions(g.members[i])]]
             ELSE g
    IN  IF "conditions" \in DOMAIN m THEN [m EXCEPT !.conditions = <<>>] ELSE m

SetsOf(g) == g.graph_info.sets

DependenciesOf(g) == g.graph_info.dependencies

\* C11: a call of in_set that returns appends its parent to the receiver's
\* graph_info.sets and no other call changes them; before and after append
\* the pair (Before | After, target) to graph_info.dependencies, duplicates
\* kept, and no other call changes them; chain, into_set and run_if leave the
\* members of a Collection or AnonymousSet as they are, and
\* distributive_run_if leaves them in their places, changing conditions only.
C11_OrderPreserved ==
    [][ Returned =>
        LET new == NodeAt(graph', ReceiverPlace)
        IN  /\ SetsOf(new) = (IF last'.op = "in_set"
                              THEN SetsOf(graph) \o <<into_graph(last'.arg)>>
                              ELSE SetsOf(graph))
            /\ DependenciesOf(new)
                  = (CASE last'.op = "before" ->
                              DependenciesOf(graph)
                                \o <<[kind |-> "Before", graph |-> into_graph(last'.arg)]>>
                       [] last'.op = "after" ->
                              DependenciesOf(graph)
                                \o <<[kind |-> "After", graph |-> into_graph(last'.arg)]>>
                       [] OTHER -> DependenciesOf(graph))
            /\ (HasMembers(graph) /\ last'.op \in {"chain", "into_set", "run_if"})
                  => graph'.members = graph.members
            /\ (HasMembers(graph) /\ last'.op = "distributive_run_if")
                  => /\ Len(graph'.members) = Len(graph.members)
                     /\ \A i \in 1..Len(graph.members) :
                           WithoutConditions(graph'.members[i])
                               = WithoutConditions(graph.members[i])
      ]_vars

\* Three dependencies have been recorded, the third equal to the first and
\* the second of the other kind.
C11_Witness ==
    /\ ~panicked
    /\ Len(DependenciesOf(graph)) = 3
    /\ DependenciesOf(graph)[1] = DependenciesOf(graph)[3]
    /\ DependenciesOf(graph)[1].kind # DependenciesOf(graph)[2].kind

\* C12: into_set on a Collection returns an AnonymousSet with the members,
\* the chained flag and the graph-info (sets, base_set, dependencies,
\* ambiguity policy, add_default_base_set) of the Collection, and with no
\* conditions.
C12_IntoSetKeepsCollection ==
    [][ (Called /\ last'.op = "into_set" /\ graph.type = "Collection")
        => /\ ~panicked'
           /\ graph'.type = "AnonymousSet"
           /\ graph'.members = graph.members
           /\ graph'.chained = graph.chained
           /\ \A f \in {"sets", "base_set", "dependencies", "ambiguous_with",
                        "add_default_base_set"} :
                 graph'.graph_info[f] = graph.graph_info[f]
           /\ graph'.conditions = <<>>
           /\ DOMAIN graph' = {"type", "graph_info", "members", "chained", "conditions"}
      ]_vars

\* A Collection of two members that was chained and given a parent has been
\* turned into a set.
C12_Witness ==
    /\ ~panicked
    /\ last.op = "into_set"
    /\ graph.type = "AnonymousSet"
    /\ Len(graph.members) = 2
    /\ graph.chained
    /\ Len(SetsOf(graph)) = 1

\* C13: into_set on a Set or an AnonymousSet panics, so into_set right after
\* an into_set that returned panics; a verb that returns a node of another
\* variant than its receiver is into_set on a System or a Collection, and the
\* node is an AnonymousSet.
C13_IntoSetOnlyOnce ==
    [][ Called =>
        /\ (last'.op = "into_set" /\ graph.type \in {"Set", "AnonymousSet"})
              => (panicked' /\ graph' = NoGraph)
        /\ (last'.op = "into_set" /\ steps > 0 /\ last.op = "into_set")
              => (panicked' /\ graph' = NoGraph)
        /\ (~panicked' /\ last'.op # "into_graph_tuple" /\ graph'.type # graph.type)
              => /\ last'.op = "into_set"
                 /\ graph.type \in {"System", "Collection"}
                 /\ graph'.type = "AnonymousSet"
      ]_vars

\* The second call of a chain was into_set, and it has panicked.
C13_Witness ==
    /\ panicked
    /\ graph = NoGraph
    /\ last.op = "into_set"
    /\ steps = 2

\* C14: chain on a Collection or an AnonymousSet returns the node with
\* chained = TRUE and nothing else changed, so on a chained node it returns
\* the node as it is; chain on a System or a Set panics; a node whose chained
\* flag is TRUE keeps it through every call that returns.
C14_ChainedMonotone ==
    [][ Called =>
        /\ (last'.op = "chain" /\ HasMembers(graph))
              => /\ ~panicked'
                 /\ graph'.chained = TRUE
                 /\ SameExcept(graph', graph, "chained")
                 /\ (graph.chained => graph' = graph)
        /\ (last'.op = "chain" /\ ~HasMembers(graph))
              => (panicked' /\ graph' = NoGraph)
        /\ ~panicked' =>
              \A p \in MemberPaths(graph) :
                  (HasMembers(NodeAt(graph, p)) /\ NodeAt(graph, p).chained)
                  => NodeAt(graph', ReceiverPlace \o p).chained
      ]_vars

\* into_set has returned as the third call on the empty Collection, which
\* was chained by one of the two calls before: the set is chained.
C14_Witness ==
    /\ ~panicked
    /\ steps = 3
    /\ last.op = "into_set"
    /\ graph.type = "AnonymousSet"
    /\ graph.members = <<>>
    /\ graph.chained

AddDefaultBaseSet(g) == g.graph_info.add_default_base_set

\* C15: add_default_base_set is TRUE on a lifted System and FALSE on a lifted
\* Set or Collection; in_default_base_set returns the receiver with the flag
\* TRUE and no_default_base_set with the flag FALSE, whatever it was, and
\* nothing else changed; no other call changes the flag of its receiver.
C15_LastToggleWins ==
    /\ (steps = 0 => AddDefaultBaseSet(graph) = (graph.type = "System"))
    /\ [][ Returned =>
           /\ (last'.op \in {"in_default_base_set", "no_default_base_set"})
                 => /\ AddDefaultBaseSet(graph') = (last'.op = "in_default_base_set")
                    /\ SameExcept(graph'.graph_info, graph.graph_info,
                                  "add_default_base_set")
                    /\ SameExcept(graph', graph, "graph_info")
           /\ (last'.op \notin {"in_default_base_set", "no_default_base_set"})
                 => AddDefaultBaseSet(NodeAt(graph', ReceiverPlace))
                        = AddDefaultBaseSet(graph)
           /\ (last'.op = "into_graph_tuple")
                 => /\ AddDefaultBaseSet(graph') = FALSE
                    /\ \A i \in 1..Len(graph'.members) :
                          <<i>> # ReceiverPlace
                          => AddDefaultBaseSet(graph'.members[i])
                                 = (graph'.members[i].type = "System")
         ]_vars

\* in_default_base_set has returned as the third call on a Set that was
\* given a condition before: its flag, FALSE when lifted, is TRUE.
C15_Witness ==
    /\ ~panicked
    /\ steps = 3
    /\ last.op = "in_default_base_set"
    /\ graph.type = "Set"
    /\ AddDefaultBaseSet(graph)
    /\ graph.conditions # <<>>

\* The graph-info of a node lifted from a set or a tuple, field by field.
NewSetGraphInfo ==
    [sets |-> <<>>, base_set |-> <<>>, dependencies |-> <<>>,
     ambiguous_with |-> [tag |-> "Check"], add_default_base_set |-> FALSE]

\* The elements of the tuple of the call l, the node built so far among them.
TupleElements(l, g) == l.arg[1] \o <<GraphInput(g)>> \o l.arg[2]

\* C16: lifting a tuple gives a Collection that is not chained, has no
\* parents, no base set, no dependencies, policy Check and
\* add_default_base_set = FALSE, and whose members are the lifted elements
\* in the order of the tuple: none for the empty tuple, one for a tuple of
\* one element, and the node built before, unchanged, at its place.
C16_TupleLiftsToCollection ==
    /\ (steps = 0 /\ last.arg.k = "tuple")
          => /\ graph.type = "Collection"
             /\ graph.chained = FALSE
             /\ graph.graph_info = NewSetGraphInfo
             /\ Len(graph.members) = Len(last.arg.elems)
             /\ \A i \in 1..Len(last.arg.elems) :
                   graph.members[i] = into_graph(last.arg.elems[i])
    /\ [][ (Called /\ last'.op = "into_graph_tuple")
           => /\ ~panicked'
              /\ graph'.type = "Collection"
              /\ DOMAIN graph' = {"type", "graph_info", "members", "chained"}
              /\ graph'.chained = FALSE
              /\ graph'.graph_info = NewSetGraphInfo
              /\ Len(graph'.members) = Len(TupleElements(last', graph))
              /\ \A i \in 1..Len(graph'.members) :
                    graph'.members[i] = into_graph(TupleElements(last', graph)[i])
              /\ NodeAt(graph', ReceiverPlace) = graph
         ]_vars

\* A System that has a parent and a condition has been written as the only
\* element of a tuple.
C16_Witness ==
    /\ ~panicked
    /\ last.op = "into_graph_tuple"
    /\ graph.type = "Collection"
    /\ Len(graph.members) = 1
    /\ graph.members[1].type = "System"
    /\ SetsOf(graph.members[1]) # <<>>
    /\ graph.members[1].conditions # <<>>
    /\ SetsOf(graph) = <<>>

\* The calls that reject their receiver or their argument for its shape.
StructuralRejection ==
    /\ Called
    /\ panicked'
    /\ \/ last'.op \in {"in_set", "in_base_set", "into_set", "chain"}
       \/ last'.op = "run_if" /\ graph.type = "Collection"
       \/ last'.op = "distributive_run_if" /\ graph.type # "Collection"

\* The message of panic!() without arguments.
DefaultPanicMessage == "explicit panic"

\* C19: a verb that rejects a call for the shape of its receiver or of its
\* argument panics with a message of its own: not the empty message, and
\* not the default message of a panic without arguments.
C19_RejectionsCarryMessage ==
    [][ StructuralRejection
        => (panic_msg' # "" /\ panic_msg' # DefaultPanicMessage) ]_vars

NonSendMessage(c) ==
    "Condition '" \o c.name
        \o "' accesses thread-local resources. This is not currently supported."

\* The conditions of every node of g are send.
CarriesSendConditionsOnly(g) ==
    \A n \in AllNodes(g) :
        "conditions" \in DOMAIN n
        => \A i \in 1..Len(n.conditions) : n.conditions[i].send

\* The receiver of a call that attaches last'.arg to a node.
AttachesToReceiver ==
    /\ Called
    /\ last'.op = "run_if"
    /\ graph.type \in {"System", "Set", "AnonymousSet"}

DistributesOverReceiver ==
    /\ Called
    /\ last'.op = "distributive_run_if"
    /\ graph.type = "Collection"

\* C20 as stated: run_if on a System, Set or AnonymousSet and
\* distributive_run_if on any Collection, with a condition that is not send,
\* panic with the message that names the condition; no node carries a
\* condition that is not send.
C20_NonSendAlwaysRejected ==
    /\ [](~panicked => CarriesSendConditionsOnly(graph))
    /\ [][ ((AttachesToReceiver \/ DistributesOverReceiver) /\ ~last'.arg.send)
           => (panicked' /\ panic_msg' = NonSendMessage(last'.arg))
         ]_vars

\* C20, amended: run_if on a System, Set or AnonymousSet, and
\* distributive_run_if on a Collection that holds a node that is not a
\* Collection, with a condition that is not send, panic with the message
\* that names the condition; distributive_run_if on a Collection that holds
\* no such node (the empty Collection, Collections of empty Collections)
\* attaches nothing and returns the Collection as it is, send or not; no
\* node carries a condition that is not send.
C20_NonSendRejectedWhenAttached ==
    /\ [](~panicked => CarriesSendConditionsOnly(graph))
    /\ [][ /\ ((AttachesToReceiver
                   \/ (DistributesOverReceiver /\ CollectionLeafPaths(graph) # {}))
                /\ ~last'.arg.send)
              => (/\ panicked'
                  /\ graph' = NoGraph
                  /\ panic_msg' = NonSendMessage(last'.arg))
           /\ (DistributesOverReceiver /\ CollectionLeafPaths(graph) = {})
              => (~panicked' /\ graph' = graph)
         ]_vars

\* distributive_run_if with a condition that is not send has panicked on a
\* Collection, with the message that names the condition.
C20_Witness ==
    /\ panicked
    /\ last.op = "distributive_run_if"
    /\ ~last.arg.send
    /\ panic_msg = NonSendMessage(last.arg)

HoldsSystem(g) ==
    \E p \in CollectionLeafPaths(g) : NodeAt(g, p).type = "System"

\* C21: in_set returns exactly when the lifted parent holds, through
\* Collections at any depth, no system-type Set, no base Set and no System,
\* and the receiver holds no base Set; it then appends the lifted parent
\* once at the end of graph_info.sets and changes nothing else.  A parent
\* that is an AnonymousSet is accepted whatever its members are.
C21_InSetAcceptsExactlyLegal ==
    [][ (Called /\ last'.op = "in_set") =>
        LET parent == into_graph(last'.arg)
            legal == /\ ~HoldsSystemTypeSet(parent)
                     /\ ~HoldsBaseSet(parent)
                     /\ ~HoldsSystem(parent)
                     /\ ~HoldsBaseSet(graph)
        IN  /\ panicked' = ~legal
            /\ legal => /\ SetsOf(graph') = SetsOf(graph) \o <<parent>>
                        /\ SameExcept(graph'.graph_info, graph.graph_info, "sets")
                        /\ SameExcept(graph', graph, "graph_info")
            /\ (parent.type = "AnonymousSet" /\ ~HoldsBaseSet(graph)) => ~panicked'
      ]_vars

\* in_set has returned with a parent that is an AnonymousSet whose members
\* are a system-type Set and a base Set.
C21_Witness ==
    /\ ~panicked
    /\ last.op = "in_set"
    /\ last.arg.k = "graph"
    /\ last.arg.graph.type = "AnonymousSet"
    /\ Len(last.arg.graph.members) = 2
    /\ IsSystemTypeSetNode(last.arg.graph.members[1])
    /\ IsBaseSetNode(last.arg.graph.members[2])
    /\ SetsOf(graph)[Len(SetsOf(graph))] = last.arg.graph

\* C22: into_set on a System returns an AnonymousSet that is not chained, has
\* no conditions and a graph-info with no parents, no base set, no
\* dependencies, policy Check and add_default_base_set = FALSE; its one
\* member is the System as it was, with all its graph-info and conditions.
C22_IntoSetWrapsSystem ==
    [][ (Called /\ last'.op = "into_set" /\ graph.type = "System")
        => /\ ~panicked'
           /\ graph'.type = "AnonymousSet"
           /\ DOMAIN graph' = {"type", "graph_info", "members", "chained", "conditions"}
           /\ graph'.chained = FALSE
           /\ graph'.conditions = <<>>
           /\ graph'.graph_info = NewSetGraphInfo
           /\ Len(graph'.members) = 1
           /\ graph'.members[1] = graph
      ]_vars

\* A System that was given a parent and a condition has been turned into a
\* set: both are on the member, none on the set.
C22_Witness ==
    /\ ~panicked
    /\ steps = 3
    /\ last.op = "into_set"
    /\ graph.type = "AnonymousSet"
    /\ Len(graph.members) = 1
    /\ graph.members[1].type = "System"
    /\ SetsOf(graph.members[1]) # <<>>
    /\ graph.members[1].conditions # <<>>
    /\ AddDefaultBaseSet(graph.members[1])
    /\ SetsOf(graph) = <<>>
    /\ graph.conditions = <<>>

\* The field of graph_info that a verb writes.
OwnField(op) ==
    CASE op \in {"before", "after"} -> "dependencies"
      [] op = "in_set" -> "sets"
      [] op = "in_base_set" -> "base_set"
      [] op \in {"in_default_base_set", "no_default_base_set"} -> "add_default_base_set"
      [] op \in {"ambiguous_with", "ambiguous_with_all"} -> "ambiguous_with"

NumMembers(g) == IF HasMembers(g) THEN Len(g.members) ELSE 0

\* C24: a verb that returns changes its own field of the receiver only:
\* before and after dependencies, in_set sets, in_base_set base_set,
\* in_default_base_set and no_default_base_set add_default_base_set,
\* ambiguous_with and ambiguous_with_all the ambiguity policy (the variant,
\* the members, the conditions and chained are as before), chain the chained
\* flag; and no verb changes the number of members of the receiver or of a
\* node below it.
C24_VerbChangesOwnFieldOnly ==
    [][ (Returned /\ last'.op # "into_graph_tuple") =>
        /\ (last'.op \in {"before", "after", "in_set", "in_base_set",
                          "in_default_base_set", "no_default_base_set",
                          "ambiguous_with", "ambiguous_with_all"})
              => /\ SameExcept(graph'.graph_info, graph.graph_info, OwnField(last'.op))
                 /\ SameExcept(graph', graph, "graph_info")
        /\ (last'.op = "chain") => SameExcept(graph', graph, "chained")
        /\ \A p \in MemberPaths(graph) :
              NumMembers(NodeAt(graph', ReceiverPlace \o p))
                  = NumMembers(NodeAt(graph, p))
      ]_vars

\* no_default_base_set has returned as the third call on a Collection of two
\* members that has a base set and a dependency.
C24_Witness ==
    /\ ~panicked
    /\ steps = 3
    /\ last.op = "no_default_base_set"
    /\ graph.type = "Collection"
    /\ Len(graph.members) = 2
    /\ BaseSetOf(graph) # <<>>
    /\ DependenciesOf(graph) # <<>>

----------------------------------------------------------------------------
(* Properties of the config wrappers *)

\* C2: distributive_run_if(c) of the wrapper SystemConfigs has the outcome of
\* SystemGraph's distributive_run_if(c) on the wrapped node: it panics when
\* that panics, and returns the node that returns.
C2_WrapperDistributesLikeGraph ==
    [][ (Called /\ wrapper = "SystemConfigs" /\ last'.op = "distributive_run_if")
        => LET r == distributive_run_if(graph, last'.arg)
           IN  /\ panicked' = r.panicked
               /\ graph' = r.value
      ]_vars

\* C18: before and after of a wrapper, given a work-unit function f, record
\* a dependency whose target is the Set node of the system-type set of f, not
\* a System node, and ambiguous_with records that set: a set with
\* is_system_type, not a base set, equal and hash-equal to every system-type
\* set of f.
C18_FunctionLiftsToSystemTypeSet ==
    [][ (Returned /\ last'.op \in {"before", "after", "ambiguous_with"}
            /\ last'.arg.k = "fn") =>
        LET f == last'.arg.f
            set == into_system_set(last'.arg)
        IN  /\ set.kind = "SystemTypeSet"
            /\ is_system_type(set) /\ ~is_base(set)
            /\ set = SystemTypeSet(f)
            /\ SystemTypeSet_eq(set, SystemTypeSet(f))
            /\ SystemTypeSet_hash(set) = SystemTypeSet_hash(SystemTypeSet(f))
            /\ (last'.op \in {"before", "after"}) =>
                  LET d == DependenciesOf(graph')[Len(DependenciesOf(graph'))]
                  IN  /\ d.kind = (IF last'.op = "before" THEN "Before" ELSE "After")
                      /\ d.graph.type = "Set"
                      /\ d.graph.set = [kind |-> "SystemTypeSet", name |-> f,
                                        base |-> FALSE]
                      /\ d.graph.conditions = <<>>
                      /\ d.graph.graph_info = NewSetGraphInfo
            /\ (last'.op = "ambiguous_with" /\ AmbiguityOf(graph).tag # "IgnoreAll") =>
                  LET sets == AmbiguityOf(graph').sets
                  IN  sets[Len(sets)] = [kind |-> "SystemTypeSet", name |-> f,
                                         base |-> FALSE]
      ]_vars

\* A wrapper has recorded two dependencies on the function A, the second by
\* after: their targets are the same Set node.
C18_Witness ==
    /\ ~panicked
    /\ wrapper # "SystemGraph"
    /\ last.op = "after"
    /\ last.arg = A
    /\ Len(DependenciesOf(graph)) = 2
    /\ DependenciesOf(graph)[1].graph = DependenciesOf(graph)[2].graph
    /\ IsSystemTypeSetNode(DependenciesOf(graph)[2].graph)

\* The variant each wrapper type holds.
WrapperHolds(w, g) ==
    CASE w = "SystemConfig" -> g.type = "System"
      [] w = "SystemSetConfig" -> g.type = "Set"
      [] w = "SystemSetConfigs" -> g.type = "Collection"
      [] w = "SystemConfigs" ->
            \/ g.type = "Collection"
            \/ /\ g.type = "AnonymousSet"
               /\ \A i \in 1..Len(g.members) : g.members[i].type = "System"

\* C23: a SystemConfig holds a System, a SystemSetConfig a Set, a
\* SystemSetConfigs a Collection and a SystemConfigs a Collection or an
\* AnonymousSet of Systems, which only into_set makes; so chain on
\* SystemConfigs and SystemSetConfigs returns, run_if with a send condition
\* on SystemConfig and SystemSetConfig returns, and into_set on SystemConfigs
\* panics exactly when the node is an AnonymousSet already.
C23_WrapperFixesVariant ==
    /\ [](~panicked => WrapperHolds(wrapper, graph))
    /\ [][ Called =>
           /\ (last'.op = "chain") => ~panicked'
           /\ (last'.op = "run_if" /\ wrapper \in {"SystemConfig", "SystemSetConfig"}
                   /\ SendCondition(last'.arg))
                 => ~panicked'
           /\ (last'.op = "into_set")
                 => (panicked' = (graph.type = "AnonymousSet"))
           /\ (~panicked' /\ graph'.type = "AnonymousSet" /\ graph.type # "AnonymousSet")
                 => last'.op = "into_set"
         ]_vars

\* chain has returned as the third call on a SystemConfigs that into_set had
\* turned into an AnonymousSet of two Systems.
C23_Witness ==
    /\ ~panicked
    /\ wrapper = "SystemConfigs"
    /\ steps = 3
    /\ last.op = "chain"
    /\ graph.type = "AnonymousSet"
    /\ Len(graph.members) = 2
    /\ graph.chained

----------------------------------------------------------------------------
(* Properties of the identities of anonymous sets *)

Alive == { s \in Slots : anonymous[s] # NoValue }

\* C17: two values alive that come from different calls of new are not equal,
\* whatever their names; no address is given to two calls of new; two
\* values of one call of new (a value and its clones) are equal and hash to
\* the same value, and cloning gives out no address.
C17_IdentityUniquePerCreation ==
    /\ [](\A s \in Alive, t \in Alive :
             IF anonymous[s].creation = anonymous[t].creation
             THEN /\ AnonymousSystemSet_eq(anonymous[s], anonymous[t])
                  /\ AnonymousSystemSet_hash(anonymous[s])
                        = AnonymousSystemSet_hash(anonymous[t])
             ELSE ~AnonymousSystemSet_eq(anonymous[s], anonymous[t]))
    /\ [](\A i \in 1..Len(issued), j \in 1..Len(issued) :
             i # j => issued[i] # issued[j])
    /\ [][last'.op = "clone" => issued' = issued]_vars

====
